---- MODULE Spec2Model ----
(***************************************************************************)
(* A model of bpad_proto1_core's two operator scripts:                     *)
(*   setup.py  (Acquire-and-Customize): download, backup, extract, move,   *)
(*             restore, patch;                                             *)
(*   build.py  (Package-and-Checksum): precondition checks, version input, *)
(*             git short sha, zip creation, sha256.                        *)
(* The file system is the state.  Text is a sequence of tokens; a file     *)
(* node carries its text, a directory node a set of (name, text) entries.  *)
(* The vendor tree is a map over four paths: the two CUSTOM_FILES,         *)
(* platform.txt and one path outside CUSTOM_FILES.  Parent directories     *)
(* (esp32/variants) exist when a path below them does, and a directory's   *)
(* entries are regular files.                                              *)
(***************************************************************************)
EXTENDS Integers, Sequences, FiniteSets, TLC

VARIABLES
    \* ---- setup.py ----
    cache,      \* esp32-2.0.17.zip (zip_path)
    esp32,      \* the vendor tree ESP32_DIR
    backup,     \* backup_dir, "_backup"
    temp,       \* temp_extract, "_temp_extract"
    extracted,  \* extracted_dir (the local variable of main)
    pc,         \* position of setup.py's main
    idx,        \* loop index over CUSTOM_FILES in the backup and restore loops
    pre,        \* history: the vendor tree when the current run started
    cache0,     \* history: the cache file when the current run started
    backedUp,   \* history: the backup loop of the current run has finished
    fetches,    \* history: number of download_file calls so far
    runs,       \* number of setup.py runs started
    kills,      \* number of runs ended by an interrupt
    \* ---- the patch step of setup.py, statement by statement ----
    ptxt,       \* platform.txt on disk
    content,    \* the local variable content
    ptxt0,      \* history: platform.txt before the patch
    ppc,        \* position inside the patch step
    \* ---- build.py ----
    release,    \* RELEASE_DIR
    bpc,        \* position of build.py's main
    version,    \* the local variable version (after strip)
    rawInput,   \* history: what the operator typed
    gitEnv,     \* what running git does in this build
    short_sha,  \* the local variable short_sha
    zip_name,   \* zip_filename
    builds,     \* number of build.py runs started
    built,      \* history: one record per finished build
    release0    \* history: RELEASE_DIR when the current build started

setupVars == <<cache, esp32, backup, temp, extracted, pc, idx, pre, cache0,
               backedUp, fetches, runs, kills>>
patchVars == <<ptxt, content, ptxt0, ppc>>
buildVars == <<release, bpc, version, rawInput, gitEnv, short_sha, zip_name,
               builds, built, release0>>
vars == <<setupVars, patchVars, buildVars>>
notSetup == <<patchVars, buildVars>>
notPatch == <<setupVars, buildVars>>
notBuild == <<setupVars, patchVars>>

-----------------------------------------------------------------------------
(* Bounds of the model.                                                    *)

MaxRuns == 2
MaxKills == 1
MaxLines == 3
MaxLineLen == 3
MaxVerLen == 2
MaxBuilds == 2

-----------------------------------------------------------------------------
(* Generic helpers.                                                        *)

SeqsUpTo(S, n) == UNION {[1..k -> S] : k \in 0..n}

RECURSIVE Concat(_)
Concat(ss) == IF ss = <<>> THEN <<>> ELSE Head(ss) \o Concat(Tail(ss))

\* All enumerations (orderings without repetition) of a finite set.
Enumerations(S) ==
    {f \in [1..Cardinality(S) -> S] : \A a, b \in 1..Cardinality(S) : a # b => f[a] # f[b]}

-----------------------------------------------------------------------------
(* Text and str.replace.                                                   *)

NL == "\n"
OrigName == <<"name=", "ESP32 Arduino">>
NewName == <<"name=", "bpad proto1 (ESP32 v", "2.0.17", ")">>
OrigVersion == <<"version=", "2.0.17">>
NewVersion == <<"version=", "0.1.0">>

IsPrefix(p, s) == Len(p) <= Len(s) /\ SubSeq(s, 1, Len(p)) = p

\* str.replace(old, new, 1): the first occurrence only.
RECURSIVE StrReplace_First(_, _, _)
StrReplace_First(s, old, new) ==
    IF s = <<>> THEN <<>>
    ELSE IF IsPrefix(old, s)
         THEN new \o SubSeq(s, Len(old) + 1, Len(s))
         ELSE <<Head(s)>> \o StrReplace_First(Tail(s), old, new)

\* str.replace(old, new): every non-overlapping occurrence, scanning from the left.
RECURSIVE StrReplace(_, _, _)
StrReplace(s, old, new) ==
    IF s = <<>> THEN <<>>
    ELSE IF IsPrefix(old, s)
         THEN new \o StrReplace(SubSeq(s, Len(old) + 1, Len(s)), old, new)
         ELSE <<Head(s)>> \o StrReplace(Tail(s), old, new)

ReplaceName(s) == StrReplace(s, OrigName, NewName)
ReplaceVersion(s) == StrReplace(s, OrigVersion, NewVersion)

PatchText(s) == ReplaceVersion(ReplaceName(s))

\* The lines of a text: split at every newline token.
RECURSIVE SplitLines(_)
SplitLines(s) ==
    IF \A k \in 1..Len(s) : s[k] # NL THEN <<s>>
    ELSE LET k == CHOOSE j \in 1..Len(s) : s[j] = NL /\ \A m \in 1..(j - 1) : s[m] # NL
         IN <<SubSeq(s, 1, k - 1)>> \o SplitLines(SubSeq(s, k + 1, Len(s)))

RECURSIVE JoinLines(_)
JoinLines(ls) ==
    IF ls = <<>> THEN <<>>
    ELSE IF Len(ls) = 1 THEN ls[1]
    ELSE ls[1] \o <<NL>> \o JoinLines(Tail(ls))

Contains(s, pat) == \E k \in 0..(Len(s) - Len(pat)) : SubSeq(s, k + 1, k + Len(pat)) = pat

LineTokens == {"name=", "ESP32 Arduino", "version=", "2.0.17", "x"}

-----------------------------------------------------------------------------
(* File-system nodes.  A path holds nothing, a regular file (its text) or  *)
(* a directory (its entries, each a named regular file).                   *)

NoNode == [kind |-> "none", data |-> <<>>, ents |-> {}]
File(d) == [kind |-> "file", data |-> d, ents |-> {}]
Dir(e) == [kind |-> "dir", data |-> <<>>, ents |-> e]
Entry(n, d) == [name |-> n, data |-> d]

Exists(n) == n.kind # "none"
IsDir(n) == n.kind = "dir"

\* Writing a regular file named n into a directory replaces the entry of that name.
PutEntry(ents, n, d) == {e \in ents : e.name # n} \cup {Entry(n, d)}

\* Paths relative to the invocation root are "esp32/<p>"; p ranges over TreePaths.
BoardsTxt == "boards.txt"
VariantDir == "variants/bpad_proto1"
PlatformTxt == "platform.txt"
ProgrammersTxt == "programmers.txt"

CUSTOM_FILES == <<BoardsTxt, VariantDir>>
CustomPaths == {CUSTOM_FILES[k] : k \in DOMAIN CUSTOM_FILES}
TreePaths == {BoardsTxt, VariantDir, PlatformTxt, ProgrammersTxt}

Basename(p) == IF p = VariantDir THEN "bpad_proto1" ELSE p

EmptyTree == [p \in TreePaths |-> NoNode]
EmptyHold == [p \in CustomPaths |-> NoNode]

\* A directory of the invocation root: present or not, and what it holds.
AbsentDir == [exists |-> FALSE, at |-> EmptyTree]
TreeDir(t) == [exists |-> TRUE, at |-> t]
AbsentHold == [exists |-> FALSE, at |-> EmptyHold]
AbsentTemp == [exists |-> FALSE, dirs |-> {}, files |-> FALSE]

\* The cache file: absent, not a readable zip (a truncated download), or a zip
\* whose entries unpack to top-level directories `dirs` and, with `files`, to
\* top-level regular files.
AbsentCache == [exists |-> FALSE, valid |-> FALSE, dirs |-> {}, files |-> FALSE]
TruncatedCache == [exists |-> TRUE, valid |-> FALSE, dirs |-> {}, files |-> FALSE]
Zip(ds, f) == [exists |-> TRUE, valid |-> TRUE, dirs |-> ds, files |-> f]

-----------------------------------------------------------------------------
(* The contents the model draws its inputs from.                           *)

Local == <<"local">>
Vendor == <<"vendor">>
Old == <<"old">>

VendorPlatform == OrigName \o <<NL>> \o OrigVersion \o <<NL, "x">> \o OrigVersion
PatchedPlatform == PatchText(VendorPlatform)

\* Vendor trees as they are before a run: local customizations may be there or not.
PreTrees ==
    {[p \in TreePaths |->
        CASE p = BoardsTxt -> b
          [] p = VariantDir -> v
          [] p = PlatformTxt -> pl
          [] OTHER -> o] :
        b \in {NoNode, File(Local)},
        v \in {NoNode, Dir({Entry("pins_arduino.h", Local)})},
        pl \in {NoNode, File(PatchedPlatform)},
        o \in {NoNode, File(Old)}}

\* Top-level directories a vendor archive may unpack to: anything may sit at the
\* preserved paths.
ArchiveTrees ==
    {[p \in TreePaths |->
        CASE p = BoardsTxt -> b
          [] p = VariantDir -> v
          [] p = PlatformTxt -> pl
          [] OTHER -> File(Vendor)] :
        b \in {NoNode, File(Vendor), Dir({Entry("boards.local.txt", Vendor)})},
        v \in {NoNode, File(Vendor),
               Dir({Entry("pins_arduino.h", Vendor), Entry("variant.h", Vendor)})},
        pl \in {NoNode, File(VendorPlatform)}}

Archives ==
    {Zip({}, f) : f \in BOOLEAN}
    \cup {Zip({t}, FALSE) : t \in ArchiveTrees}
    \cup {Zip({t, EmptyTree}, TRUE) : t \in ArchiveTrees}

-----------------------------------------------------------------------------
(* shutil, as setup.py uses it.                                            *)

\* Lines 73-78 and 130-135: a directory is removed at the destination and copied
\* (rmtree of a regular file raises), a file is copied with copy2, which writes
\* INTO the destination when that is a directory.
CopyCustom(src, dst, base) ==
    IF IsDir(src)
    THEN IF dst.kind = "file"
         THEN [ok |-> FALSE, node |-> dst]
         ELSE [ok |-> TRUE, node |-> src]
    ELSE IF IsDir(dst)
         THEN [ok |-> TRUE, node |-> Dir(PutEntry(dst.ents, base, src.data))]
         ELSE [ok |-> TRUE, node |-> File(src.data)]

CacheMissing_Always(c) == TRUE
\* Line 58: not os.path.exists(zip_path)
CacheMissing(c) == ~c.exists

\* Lines 103-107: the directories among os.listdir(temp_extract); the loop takes
\* the first one the listing yields, which may be any of them.
Candidates(t) == t.dirs

-----------------------------------------------------------------------------
(* setup.py main, one action per step.  pc names the step about to run;    *)
(* "done" is exit code 0, "exit1" is sys.exit(1), "traceback" an uncaught  *)
(* exception (exit code 1 as well), "killed" an interrupt.                 *)

Running == {"download", "mkbackup", "backup", "extract", "find", "remove", "move",
            "cleantemp", "restore", "cleanbackup", "patch"}
Ended == {"done", "exit1", "traceback", "killed"}

InitFilesSetup ==
    /\ cache \in {AbsentCache, TruncatedCache} \cup Archives
    /\ esp32 \in {AbsentDir} \cup {TreeDir(t) : t \in PreTrees}
    /\ backup = AbsentHold
    /\ temp = AbsentTemp

InitSetup ==
    /\ InitFilesSetup
    /\ extracted = EmptyTree
    /\ pc = "idle"
    /\ idx = 1
    /\ pre = esp32
    /\ cache0 = cache
    /\ backedUp = FALSE
    /\ fetches = 0
    /\ runs = 0
    /\ kills = 0

\* The operator starts setup.py (again).
StartRun ==
    /\ pc \in {"idle"} \cup Ended
    /\ runs < MaxRuns
    /\ runs' = runs + 1
    /\ pc' = "download"
    /\ idx' = 1
    /\ pre' = esp32
    /\ cache0' = cache
    /\ backedUp' = FALSE
    /\ extracted' = EmptyTree
    /\ UNCHANGED <<cache, esp32, backup, temp, fetches, kills>>
    /\ UNCHANGED notSetup

\* Step 1, cache file absent: download_file.  urlretrieve either writes the whole
\* archive, or raises leaving nothing or a truncated file.
Download ==
    /\ pc = "download"
    /\ CacheMissing(cache)
    /\ fetches' = fetches + 1
    /\ \/ \E a \in Archives : cache' = a /\ pc' = "mkbackup"
       \/ cache' \in {AbsentCache, TruncatedCache} /\ pc' = "traceback"
    /\ UNCHANGED <<esp32, backup, temp, extracted, idx, pre, cache0, backedUp, runs, kills>>
    /\ UNCHANGED notSetup

\* Step 1, cache file present: skipping download.
SkipDownload ==
    /\ pc = "download"
    /\ ~CacheMissing(cache)
    /\ pc' = "mkbackup"
    /\ UNCHANGED <<cache, esp32, backup, temp, extracted, idx, pre, cache0, backedUp,
                   fetches, runs, kills>>
    /\ UNCHANGED notSetup

\* Step 2: os.makedirs(backup_dir, exist_ok=True); what a failed run left stays.
MakeBackupDir ==
    /\ pc = "mkbackup"
    /\ backup' = [backup EXCEPT !.exists = TRUE]
    /\ pc' = "backup"
    /\ idx' = 1
    /\ UNCHANGED <<cache, esp32, temp, extracted, pre, cache0, backedUp, fetches, runs, kills>>
    /\ UNCHANGED notSetup

\* Step 2: one iteration of the loop over CUSTOM_FILES.
BackupCustom ==
    /\ pc = "backup"
    /\ idx <= Len(CUSTOM_FILES)
    /\ LET custom == CUSTOM_FILES[idx]
           src == esp32.at[custom]
           r == CopyCustom(src, backup.at[custom], Basename(custom))
       IN IF esp32.exists /\ Exists(src)
          THEN IF r.ok
               THEN /\ backup' = [backup EXCEPT !.at[custom] = r.node]
                    /\ idx' = idx + 1
                    /\ pc' = pc
               ELSE /\ pc' = "traceback"
                    /\ UNCHANGED <<backup, idx>>
          ELSE /\ idx' = idx + 1
               /\ UNCHANGED <<backup, pc>>
    /\ UNCHANGED <<cache, esp32, temp, extracted, pre, cache0, backedUp, fetches, runs, kills>>
    /\ UNCHANGED notSetup

BackupLoopEnd ==
    /\ pc = "backup"
    /\ idx > Len(CUSTOM_FILES)
    /\ backedUp' = TRUE
    /\ pc' = "extract"
    /\ UNCHANGED <<cache, esp32, backup, temp, extracted, idx, pre, cache0, fetches, runs, kills>>
    /\ UNCHANGED notSetup

\* Step 3: ZipFile(zip_path) raises BadZipFile on a truncated file; otherwise a
\* stale temp_extract is removed and extractall writes the archive's entries (an
\* archive with no entry creates nothing).
Extract ==
    /\ pc = "extract"
    /\ IF ~cache.valid
       THEN pc' = "traceback" /\ UNCHANGED temp
       ELSE /\ temp' = [exists |-> cache.dirs # {} \/ cache.files,
                        dirs |-> cache.dirs, files |-> cache.files]
            /\ pc' = "find"
    /\ UNCHANGED <<cache, esp32, backup, extracted, idx, pre, cache0, backedUp, fetches,
                   runs, kills>>
    /\ UNCHANGED notSetup

\* Step 4, lines 102-111: a directory of temp_extract becomes extracted_dir.
FindExtractedDir_NoExit ==
    /\ pc = "find"
    /\ \/ /\ ~temp.exists
          /\ pc' = "traceback"
          /\ UNCHANGED extracted
       \/ /\ temp.exists
          /\ Candidates(temp) = {}
          /\ pc' = "remove"
          /\ UNCHANGED extracted
       \/ /\ temp.exists
          /\ \E d \in Candidates(temp) : extracted' = d
          /\ pc' = "remove"
    /\ UNCHANGED <<cache, esp32, backup, temp, idx, pre, cache0, backedUp, fetches, runs, kills>>
    /\ UNCHANGED notSetup

FindExtractedDir ==
    /\ pc = "find"
    /\ \/ /\ ~temp.exists
          /\ pc' = "traceback"
          /\ UNCHANGED extracted
       \/ /\ temp.exists
          /\ Candidates(temp) = {}
          /\ pc' = "exit1"
          /\ UNCHANGED extracted
       \/ /\ temp.exists
          /\ \E d \in Candidates(temp) : extracted' = d
          /\ pc' = "remove"
    /\ UNCHANGED <<cache, esp32, backup, temp, idx, pre, cache0, backedUp, fetches, runs, kills>>
    /\ UNCHANGED notSetup

RemoveVendorTree_Keep ==
    /\ pc = "remove"
    /\ pc' = "move"
    /\ UNCHANGED <<cache, esp32, backup, temp, extracted, idx, pre, cache0, backedUp,
                   fetches, runs, kills>>
    /\ UNCHANGED notSetup

\* Lines 114-115: shutil.rmtree(ESP32_DIR) if it exists.
RemoveVendorTree ==
    /\ pc = "remove"
    /\ esp32' = AbsentDir
    /\ pc' = "move"
    /\ UNCHANGED <<cache, backup, temp, extracted, idx, pre, cache0, backedUp, fetches,
                   runs, kills>>
    /\ UNCHANGED notSetup

\* Line 117: shutil.move(extracted_dir, ESP32_DIR) renames the directory; onto an
\* existing directory it would move it inside, leaving what is there.
MoveExtracted ==
    /\ pc = "move"
    /\ esp32' = IF esp32.exists THEN esp32 ELSE TreeDir(extracted)
    /\ temp' = [temp EXCEPT !.dirs = temp.dirs \ {extracted}]
    /\ pc' = "cleantemp"
    /\ UNCHANGED <<cache, backup, extracted, idx, pre, cache0, backedUp, fetches, runs, kills>>
    /\ UNCHANGED notSetup

\* Lines 121-122: shutil.rmtree(temp_extract).
CleanTemp ==
    /\ pc = "cleantemp"
    /\ temp' = AbsentTemp
    /\ pc' = "restore"
    /\ idx' = 1
    /\ UNCHANGED <<cache, esp32, backup, extracted, pre, cache0, backedUp, fetches, runs, kills>>
    /\ UNCHANGED notSetup

\* Step 5: one iteration of the restore loop over CUSTOM_FILES.
RestoreCustom ==
    /\ pc = "restore"
    /\ idx <= Len(CUSTOM_FILES)
    /\ LET custom == CUSTOM_FILES[idx]
           src == backup.at[custom]
           r == CopyCustom(src, esp32.at[custom], Basename(custom))
       IN IF Exists(src)
          THEN IF r.ok
               THEN /\ esp32' = [esp32 EXCEPT !.at[custom] = r.node]
                    /\ idx' = idx + 1
                    /\ pc' = pc
               ELSE /\ pc' = "traceback"
                    /\ UNCHANGED <<esp32, idx>>
          ELSE /\ idx' = idx + 1
               /\ UNCHANGED <<esp32, pc>>
    /\ UNCHANGED <<cache, backup, temp, extracted, pre, cache0, backedUp, fetches, runs, kills>>
    /\ UNCHANGED notSetup

RestoreLoopEnd ==
    /\ pc = "restore"
    /\ idx > Len(CUSTOM_FILES)
    /\ pc' = "cleanbackup"
    /\ UNCHANGED <<cache, esp32, backup, temp, extracted, idx, pre, cache0, backedUp,
                   fetches, runs, kills>>
    /\ UNCHANGED notSetup

\* Line 139: shutil.rmtree(backup_dir).
CleanBackup ==
    /\ pc = "cleanbackup"
    /\ backup' = AbsentHold
    /\ pc' = "patch"
    /\ UNCHANGED <<cache, esp32, temp, extracted, idx, pre, cache0, backedUp, fetches,
                   runs, kills>>
    /\ UNCHANGED notSetup

\* Step 6: platform.txt is read, both replacements made, and written back; a
\* missing platform.txt is a warning.
PatchPlatform ==
    /\ pc = "patch"
    /\ LET f == esp32.at[PlatformTxt]
       IN esp32' = IF Exists(f)
                   THEN [esp32 EXCEPT !.at[PlatformTxt] = File(PatchText(f.data))]
                   ELSE esp32
    /\ pc' = "done"
    /\ UNCHANGED <<cache, backup, temp, extracted, idx, pre, cache0, backedUp, fetches,
                   runs, kills>>
    /\ UNCHANGED notSetup

\* The operator's interrupt, or an I/O failure, between two steps.
Interrupt ==
    /\ pc \in Running
    /\ kills < MaxKills
    /\ kills' = kills + 1
    /\ pc' = "killed"
    /\ UNCHANGED <<cache, esp32, backup, temp, extracted, idx, pre, cache0, backedUp,
                   fetches, runs>>
    /\ UNCHANGED notSetup

NextSetup ==
    \/ StartRun
    \/ Download
    \/ SkipDownload
    \/ MakeBackupDir
    \/ BackupCustom
    \/ BackupLoopEnd
    \/ Extract
    \/ FindExtractedDir
    \/ RemoveVendorTree
    \/ MoveExtracted
    \/ CleanTemp
    \/ RestoreCustom
    \/ RestoreLoopEnd
    \/ CleanBackup
    \/ PatchPlatform
    \/ Interrupt

-----------------------------------------------------------------------------
(* The patch step of setup.py (lines 143-159), one action per statement.   *)

NameLine == OrigName
VersionLine == OrigVersion

\* platform.txt before the patch: the two known lines and one other line, in any
\* arrangement of at most MaxLines lines.
InitPatch ==
    /\ \E extra \in SeqsUpTo(LineTokens, MaxLineLen) :
          \E ls \in SeqsUpTo({NameLine, VersionLine, extra}, MaxLines) :
             ptxt = JoinLines(ls)
    /\ ptxt0 = ptxt
    /\ content = <<>>
    /\ ppc = "read"

\* Lines 145-146: content = f.read()
ReadPlatform ==
    /\ ppc = "read"
    /\ content' = ptxt
    /\ ppc' = "replace_name"
    /\ UNCHANGED <<ptxt, ptxt0>>
    /\ UNCHANGED notPatch

\* Lines 147-150
ReplaceNameStep ==
    /\ ppc = "replace_name"
    /\ content' = ReplaceName(content)
    /\ ppc' = "replace_version"
    /\ UNCHANGED <<ptxt, ptxt0>>
    /\ UNCHANGED notPatch

\* Lines 151-154
ReplaceVersionStep ==
    /\ ppc = "replace_version"
    /\ content' = ReplaceVersion(content)
    /\ ppc' = "write"
    /\ UNCHANGED <<ptxt, ptxt0>>
    /\ UNCHANGED notPatch

\* Lines 155-156: f.write(content)
WritePlatform ==
    /\ ppc = "write"
    /\ ptxt' = content
    /\ ppc' = "patched"
    /\ UNCHANGED <<content, ptxt0>>
    /\ UNCHANGED notPatch

NextPatch ==
    \/ ReadPlatform
    \/ ReplaceNameStep
    \/ ReplaceVersionStep
    \/ WritePlatform

-----------------------------------------------------------------------------
(* build.py.                                                               *)

VersionChars == {" ", "1"}
VersionInputs == SeqsUpTo(VersionChars, MaxVerLen)
NotTyped == <<"-">>

RECURSIVE LStrip(_)
LStrip(s) == IF s # <<>> /\ Head(s) = " " THEN LStrip(Tail(s)) ELSE s

RECURSIVE RStrip(_)
RStrip(s) == IF s # <<>> /\ s[Len(s)] = " " THEN RStrip(SubSeq(s, 1, Len(s) - 1)) ELSE s

Strip_None(s) == s
\* str.strip()
Strip(s) == RStrip(LStrip(s))

\* What subprocess.run(["git", "rev-parse", "--short", "HEAD"], check=True) does.
GitRuns == {"prints a1b2c3d", "not a repository", "git not found", "git not executable"}

\* get_git_short_sha: the sha, "unknown" for CalledProcessError and
\* FileNotFoundError; any other exception (PermissionError) is not caught.
get_git_short_sha(env) ==
    CASE env = "prints a1b2c3d" -> [raised |-> FALSE, value |-> "a1b2c3d"]
      [] env \in {"not a repository", "git not found"} -> [raised |-> FALSE, value |-> "unknown"]
      [] OTHER -> [raised |-> TRUE, value |-> ""]

\* Line 83 and line 87
ZipFilename(ver, sha) == <<"bpad_proto1-", "v">> \o ver \o <<"-", sha, ".zip">>

ZipEntry(arc, d) == [arc |-> arc, data |-> d]

RootFilePaths == {BoardsTxt, PlatformTxt, ProgrammersTxt}

\* The regular files directly in source_dir, as archive entries.
RootFiles(t) ==
    {ZipEntry(<<"esp32", p>>, t[p].data) : p \in {q \in RootFilePaths : t[q].kind = "file"}}

\* The regular files of each subdirectory os.walk descends into.
SubdirFiles(t) ==
    {g \in
        {{ZipEntry(<<"esp32", BoardsTxt, e.name>>, e.data) : e \in t[BoardsTxt].ents},
         IF t[VariantDir].kind = "file"
         THEN {ZipEntry(<<"esp32", "variants", "bpad_proto1">>, t[VariantDir].data)}
         ELSE {ZipEntry(<<"esp32", "variants", "bpad_proto1", e.name>>, e.data) :
                  e \in t[VariantDir].ents}} :
     g # {}}

\* Lines 50-54: os.walk yields a directory's files, then its subdirectories, each in
\* the order the directory listing returns them, which is not sorted.
WalkOrders(t) ==
    {Concat(<<rf>> \o [k \in 1..Len(go) |-> inner[go[k]]]) :
        rf \in Enumerations(RootFiles(t)),
        go \in Enumerations(SubdirFiles(t)),
        inner \in {f \in [SubdirFiles(t) -> UNION {Enumerations(g) : g \in SubdirFiles(t)}] :
                      \A g \in SubdirFiles(t) : f[g] \in Enumerations(g)}}

\* compute_sha256: the digest of the archive file's bytes.
compute_sha256(bytes) == [alg |-> "SHA-256", of |-> bytes]

AbsentRelease == [exists |-> FALSE, files |-> {}]
ReleaseFile(n, b) == [name |-> n, bytes |-> b]

\* Opening a file for writing creates it or truncates it.
OpenForWrite(files, n) == {f \in files : f.name # n} \cup {ReleaseFile(n, <<>>)}
WriteBytes(files, n, b) == {f \in files : f.name # n} \cup {ReleaseFile(n, b)}

BuildTrees ==
    {AbsentDir,
     TreeDir([EmptyTree EXCEPT ![BoardsTxt] = File(Local)]),
     TreeDir([EmptyTree EXCEPT ![BoardsTxt] = File(Local),
                               ![PlatformTxt] = File(PatchedPlatform),
                               ![VariantDir] = Dir({Entry("pins_arduino.h", Local)})])}

InitBuild ==
    /\ esp32 \in BuildTrees
    /\ release \in {AbsentRelease,
                    [exists |-> TRUE,
                     files |-> {ReleaseFile(ZipFilename(<<"1">>, "unknown"),
                                            <<ZipEntry(<<"esp32", ProgrammersTxt>>, Old)>>)}]}
    /\ gitEnv \in GitRuns
    /\ bpc = "idle"
    /\ version = <<>>
    /\ rawInput = NotTyped
    /\ short_sha = ""
    /\ zip_name = <<>>
    /\ builds = 0
    /\ built = <<>>
    /\ release0 = release

BuildEnded == {"done", "exit1", "traceback"}

\* The operator starts build.py (again).
StartBuild ==
    /\ bpc \in {"idle"} \cup BuildEnded
    /\ builds < MaxBuilds
    /\ builds' = builds + 1
    /\ bpc' = "check_dir"
    /\ version' = <<>>
    /\ rawInput' = NotTyped
    /\ short_sha' = ""
    /\ zip_name' = <<>>
    /\ release0' = release
    /\ UNCHANGED <<release, gitEnv, built>>
    /\ UNCHANGED notBuild

\* Lines 65-68
CheckVendorTree ==
    /\ bpc = "check_dir"
    /\ bpc' = IF esp32.exists THEN "check_platform" ELSE "exit1"
    /\ UNCHANGED <<release, version, rawInput, gitEnv, short_sha, zip_name, builds, built,
                   release0>>
    /\ UNCHANGED notBuild

\* Lines 71-75
CheckPlatformTxt ==
    /\ bpc = "check_platform"
    /\ bpc' = IF Exists(esp32.at[PlatformTxt]) THEN "input" ELSE "exit1"
    /\ UNCHANGED <<release, version, rawInput, gitEnv, short_sha, zip_name, builds, built,
                   release0>>
    /\ UNCHANGED notBuild

\* Lines 78-81
ReadVersion ==
    /\ bpc = "input"
    /\ \E typed \in VersionInputs :
          /\ rawInput' = typed
          /\ version' = Strip(typed)
          /\ bpc' = IF Strip(typed) = <<>> THEN "exit1" ELSE "git"
    /\ UNCHANGED <<release, gitEnv, short_sha, zip_name, builds, built, release0>>
    /\ UNCHANGED notBuild

\* Lines 86-87
ResolveSha ==
    /\ bpc = "git"
    /\ LET r == get_git_short_sha(gitEnv)
       IN IF r.raised
          THEN bpc' = "traceback" /\ UNCHANGED <<short_sha, zip_name>>
          ELSE /\ short_sha' = r.value
               /\ zip_name' = ZipFilename(version, r.value)
               /\ bpc' = "mkdir"
    /\ UNCHANGED <<release, version, rawInput, gitEnv, builds, built, release0>>
    /\ UNCHANGED notBuild

\* Line 90: os.makedirs(RELEASE_DIR, exist_ok=True)
MakeReleaseDir ==
    /\ bpc = "mkdir"
    /\ release' = [release EXCEPT !.exists = TRUE]
    /\ bpc' = "zip_open"
    /\ UNCHANGED <<version, rawInput, gitEnv, short_sha, zip_name, builds, built, release0>>
    /\ UNCHANGED notBuild

\* Line 49: zipfile.ZipFile(zip_path, 'w', ...)
OpenZip ==
    /\ bpc = "zip_open"
    /\ release' = [release EXCEPT !.files = OpenForWrite(release.files, zip_name)]
    /\ bpc' = "zip_write"
    /\ UNCHANGED <<version, rawInput, gitEnv, short_sha, zip_name, builds, built, release0>>
    /\ UNCHANGED notBuild

\* Lines 50-54 and the close of the with block
WriteZip ==
    /\ bpc = "zip_write"
    /\ \E w \in WalkOrders(esp32.at) :
          release' = [release EXCEPT !.files = WriteBytes(release.files, zip_name, w)]
    /\ bpc' = "sha"
    /\ UNCHANGED <<version, rawInput, gitEnv, short_sha, zip_name, builds, built, release0>>
    /\ UNCHANGED notBuild

\* Lines 106-107, and the manifest
ComputeChecksum ==
    /\ bpc = "sha"
    /\ LET f == CHOOSE g \in release.files : g.name = zip_name
       IN built' = Append(built, [name |-> zip_name, bytes |-> f.bytes,
                                  checksum |-> compute_sha256(f.bytes)])
    /\ bpc' = "done"
    /\ UNCHANGED <<release, version, rawInput, gitEnv, short_sha, zip_name, builds, release0>>
    /\ UNCHANGED notBuild

NextBuild ==
    \/ StartBuild
    \/ CheckVendorTree
    \/ CheckPlatformTxt
    \/ ReadVersion
    \/ ResolveSha
    \/ MakeReleaseDir
    \/ OpenZip
    \/ WriteZip
    \/ ComputeChecksum

-----------------------------------------------------------------------------
(* The specifications: one per script, and one for the patch step alone.   *)

IdleSetup ==
    /\ cache = AbsentCache /\ backup = AbsentHold /\ temp = AbsentTemp
    /\ extracted = EmptyTree /\ pc = "idle" /\ idx = 1 /\ pre = AbsentDir
    /\ cache0 = AbsentCache /\ backedUp = FALSE /\ fetches = 0 /\ runs = 0 /\ kills = 0

IdlePatch == ptxt = <<>> /\ ptxt0 = <<>> /\ content = <<>> /\ ppc = "idle"

IdleBuild ==
    /\ release = AbsentRelease /\ bpc = "idle" /\ version = <<>> /\ rawInput = NotTyped
    /\ gitEnv = "git not found" /\ short_sha = "" /\ zip_name = <<>> /\ builds = 0
    /\ built = <<>> /\ release0 = AbsentRelease

InitSetupSpec == InitSetup /\ IdlePatch /\ IdleBuild
InitPatchSpec == InitPatch /\ IdleSetup /\ esp32 = AbsentDir /\ IdleBuild
InitBuildSpec == InitBuild /\ IdlePatch /\ IdleSetup

SpecSetup == InitSetupSpec /\ [][NextSetup]_vars
SpecPatch == InitPatchSpec /\ [][NextPatch]_vars
SpecBuild == InitBuildSpec /\ [][NextBuild]_vars

-----------------------------------------------------------------------------
(* Properties of setup.py, checked under SpecSetup.                        *)

\* The archive in the cache unpacks to no top-level directory.
ZeroTopDirs == cache.valid /\ cache.dirs = {}

\* C1: after a successful run every preserved path that existed before the run
\* exists with exactly its prior content, whatever the archive placed there.
C1_PreservedIntact ==
    pc = "done" =>
        \A p \in CustomPaths : Exists(pre.at[p]) => esp32.at[p] = pre.at[p]

\* C2: when extraction yields no top-level directory the run ends with exit code 1
\* before the vendor tree is deleted: esp32/ is as it was when the run started.
C2_NoTopDirExitsBeforeDelete ==
    (runs > 0 /\ pc # "download" /\ ZeroTopDirs) =>
        /\ esp32 = pre
        /\ pc \in {"mkbackup", "backup", "extract", "find", "exit1", "traceback", "killed"}

C2_Witness ==
    /\ pc = "exit1"
    /\ ZeroTopDirs
    /\ backedUp
    /\ pre.at[ProgrammersTxt] = File(Old)
    /\ esp32.at[ProgrammersTxt] = File(Old)

\* C5: download_file is called only in a run that started with the cache file
\* absent, and no step deletes or rewrites a cache file that exists.
C5_FetchOnlyWhenCacheAbsent ==
    [][/\ (fetches' # fetches => ~cache.exists /\ ~cache0.exists)
       /\ (cache.exists => cache' = cache)]_vars

C5_Witness ==
    /\ runs = 2
    /\ pc = "done"
    /\ cache0.exists
    /\ fetches = 1

C10_PreservedSomewhere ==
    backedUp =>
        \A p \in CustomPaths :
            Exists(pre.at[p]) =>
                \/ esp32.exists /\ esp32.at[p] = pre.at[p]
                \/ backup.exists /\ backup.at[p] = pre.at[p]

-----------------------------------------------------------------------------
(* Properties of the patch step, checked under SpecPatch.                  *)

HasLine(t, l) == LET ls == SplitLines(t) IN \E k \in 1..Len(ls) : ls[k] = l
KnownLines == HasLine(ptxt0, NameLine) /\ HasLine(ptxt0, VersionLine)

\* C6 as claimed: a platform.txt with the original name line and version line
\* holds, once patched, the replacement name and version=0.1.0, and every other
\* line is identical to what it was.
C6_OtherLinesIdentical ==
    (ppc = "patched" /\ KnownLines) =>
        LET a == SplitLines(ptxt0)
            b == SplitLines(ptxt)
        IN /\ Len(b) = Len(a)
           /\ HasLine(ptxt, NewName)
           /\ HasLine(ptxt, NewVersion)
           /\ \A k \in 1..Len(a) : a[k] \notin {NameLine, VersionLine} => b[k] = a[k]

\* C6 as amended: the name line and the version line are replaced where they
\* stand, and every line that contains neither literal is identical to what it was.
C6_LinesWithoutLiteralIdentical ==
    (ppc = "patched" /\ KnownLines) =>
        LET a == SplitLines(ptxt0)
            b == SplitLines(ptxt)
        IN /\ Len(b) = Len(a)
           /\ \A k \in 1..Len(a) :
                 /\ a[k] = NameLine => b[k] = NewName
                 /\ a[k] = VersionLine => b[k] = NewVersion
                 /\ (~Contains(a[k], OrigName) /\ ~Contains(a[k], OrigVersion)) => b[k] = a[k]

C6_Witness ==
    /\ ppc = "patched"
    /\ ptxt0 = JoinLines(<<<<"x", "version=">>, NameLine, VersionLine>>)
    /\ ptxt = JoinLines(<<<<"x", "version=">>, NewName, NewVersion>>)

-----------------------------------------------------------------------------
(* Properties of build.py, checked under SpecBuild.                        *)

Typed == rawInput # NotTyped
AllBlank(s) == \A k \in 1..Len(s) : s[k] = " "

PreconditionUnmet ==
    \/ ~esp32.exists
    \/ ~Exists(esp32.at[PlatformTxt])
    \/ Typed /\ AllBlank(rawInput)

\* C3: with the vendor tree absent, platform.txt absent or the entered version
\* empty after stripping, build.py ends with exit code 1 and the release directory
\* is as it was: not created, no archive written.
C3_FailFast ==
    (builds > 0 /\ PreconditionUnmet) =>
        /\ release = release0
        /\ bpc \in {"check_dir", "check_platform", "exit1"}
              \cup (IF Typed THEN {} ELSE {"input"})

C3_Witness ==
    /\ bpc = "exit1"
    /\ esp32.exists
    /\ Exists(esp32.at[PlatformTxt])
    /\ rawInput = <<" ">>
    /\ release = AbsentRelease

\* C4: two builds of the unchanged vendor tree with the same version and the same
\* revision write the same archive bytes, hence the same checksum.
C4_Reproducible ==
    \A a, b \in DOMAIN built :
        built[a].name = built[b].name =>
            /\ built[a].bytes = built[b].bytes
            /\ built[a].checksum = built[b].checksum

\* C7: no step of a build deletes, truncates or rewrites a file that is in
\* release/ already.
C7_AppendOnly ==
    [][\A f \in release.files : f \in release'.files]_vars

LookupFails == gitEnv # "prints a1b2c3d"

\* C8: however the revision lookup fails, short_sha is "unknown" and the build
\* goes on to create the archive.
C8_LookupNeverFatal ==
    (builds > 0 /\ LookupFails /\ bpc \notin {"check_dir", "check_platform", "input", "git", "exit1"}) =>
        /\ bpc # "traceback"
        /\ short_sha = "unknown"

====
